---- MODULE Spec2Model ----
(***************************************************************************)
(* Model of the form validator of script.js (class FormValidator and the   *)
(* contactForm initialisation): field rule evaluation, error marking and   *)
(* clearing, submission gating and the timed success-banner sequence.      *)
(*                                                                         *)
(* Three further specifications share the state: SpecMark (showError and   *)
(* clearError called directly), SpecCheck (checkRule called on its own)    *)
(* and SpecScript (executions of the whole script in a document: style     *)
(* injection, the stats observer and the counter animations).              *)
(*                                                                         *)
(* Time is a virtual clock: a timer runs when the clock reaches its         *)
(* deadline, and the clock does not pass a deadline with a timer waiting.   *)
(* Timers set with equal or shorter delay run in the order they were set.   *)
(*                                                                         *)
(* Strings are sequences of one-character strings, so that trim, length,   *)
(* startsWith, split, parseInt and the two regular expressions are         *)
(* computed character by character as the JavaScript does.                 *)
(***************************************************************************)
EXTENDS Integers, Sequences, FiniteSets, TLC

VARIABLES
  page,       \* the document's markup: forms, governed inputs, containers
  form,       \* this.form: index of the bound form in page.forms, 0 for null
  fields,     \* this.fields: the bound descriptor names in declaration order
  listeners,  \* listeners attached by init(): a set of <<target, type>>
  error,      \* the exception the script's execution ended with, or "none"
  value,      \* element.value of each of the four inputs
  cls,        \* whether each input's classList holds 'field-error'
  errs,       \* per container, its .error-message nodes in document order
  children,   \* child nodes of the form holding the inputs, in document order
  banners,    \* per success banner awaiting removal: its age and phase
  timers,     \* pending setTimeout callbacks, in scheduling order
  navigated,  \* a submit event's default action ran: the page was left
  created,    \* number of success banners created so far (names the nodes)
  call,       \* a call of checkRule: its arguments and the value it returned
  doc,        \* the document around the form: script type, stats counters
  head,       \* the style elements of document.head, in document order
  runs,       \* how each execution of the script in this document ended
  counted,    \* the stats section's classList holds 'counted'
  observing,  \* the executions whose statsObserver observes the stats section
  intervals,  \* the setInterval timers of animateCounter, in creation order
  text        \* textContent of each counter element

\* fixed once the script has run
binding == <<page, form, fields, listeners, error>>

\* the state outside the form validator
outside == <<call, doc, head, runs, counted, observing, intervals, text>>

vars == <<page, form, fields, listeners, error, value, cls, errs, children,
          banners, timers, navigated, created, call, doc, head, runs, counted,
          observing, intervals, text>>

-----------------------------------------------------------------------------
(* Characters and strings *)

Digits == {"0", "1", "2", "3", "4", "5", "6", "7", "8", "9"}

\* the characters matched by \s and stripped by String.prototype.trim
WhiteSpace == {" ", "\t", "\n"}

DigitVal(c) ==
  CASE c = "0" -> 0 [] c = "1" -> 1 [] c = "2" -> 2 [] c = "3" -> 3
    [] c = "4" -> 4 [] c = "5" -> 5 [] c = "6" -> 6 [] c = "7" -> 7
    [] c = "8" -> 8 [] c = "9" -> 9

\* JavaScript's number NaN, and undefined as String(undefined) reads it
NaN == [nan |-> TRUE, n |-> 0]
Num(k) == [nan |-> FALSE, n |-> k]
undefined == <<"undefined">>

RECURSIVE TrimStart(_)
TrimStart(s) ==
  IF s # <<>> /\ Head(s) \in WhiteSpace THEN TrimStart(Tail(s)) ELSE s

RECURSIVE TrimEnd(_)
TrimEnd(s) ==
  IF s # <<>> /\ s[Len(s)] \in WhiteSpace
    THEN TrimEnd(SubSeq(s, 1, Len(s) - 1))
    ELSE s

\* String.prototype.trim
Trim(s) == TrimEnd(TrimStart(s))

\* String.prototype.startsWith
StartsWith(s, p) == Len(s) >= Len(p) /\ SubSeq(s, 1, Len(p)) = p

\* positions of character c in s
Positions(s, c) == {i \in 1..Len(s) : s[i] = c}

Min(S) == CHOOSE x \in S : \A y \in S : x <= y

\* s.split(sep)[1]: the text between the first and the second separator,
\* undefined when s holds no separator
SplitSecond(s, sep) ==
  LET all == Positions(s, sep) IN
  IF all = {} THEN undefined
  ELSE LET first == Min(all)
           rest  == {i \in all : i > first}
           stop  == IF rest = {} THEN Len(s) + 1 ELSE Min(rest)
       IN SubSeq(s, first + 1, stop - 1)

RECURSIVE DigitsValue(_, _)
DigitsValue(s, acc) ==
  IF s = <<>> \/ Head(s) \notin Digits THEN acc
  ELSE DigitsValue(Tail(s), 10 * acc + DigitVal(Head(s)))

\* parseInt(s, 10): leading white space skipped, an optional sign, then the
\* longest prefix of decimal digits; NaN when there is no digit (undefined is
\* first converted to the string "undefined", which has none)
ParseInt(s) ==
  LET t    == TrimStart(s)
      neg  == t # <<>> /\ Head(t) = "-"
      body == IF t # <<>> /\ Head(t) \in {"-", "+"} THEN Tail(t) ELSE t
  IN IF body = <<>> \/ Head(body) \notin Digits THEN NaN
     ELSE IF neg THEN Num(0 - DigitsValue(body, 0))
     ELSE Num(DigitsValue(body, 0))

\* a >= b on JavaScript numbers: false when either is NaN
NumGeq(a, b) == ~a.nan /\ ~b.nan /\ a.n >= b.n

\* /^[^\s@]+@[^\s@]+\.[^\s@]+$/.test(s)
NoSpaceAt(s, lo, hi) ==
  lo <= hi /\ \A k \in lo..hi : s[k] \notin WhiteSpace /\ s[k] # "@"

\* variant: the pattern without its anchors ^ and $
EmailRegexTest_Unanchored(s) ==
  \E i \in 1..Len(s) : \E j \in 1..Len(s) :
     /\ i < j
     /\ s[i] = "@"
     /\ s[j] = "."
     /\ i > 1 /\ NoSpaceAt(s, i - 1, i - 1)
     /\ NoSpaceAt(s, i + 1, j - 1)
     /\ j < Len(s) /\ NoSpaceAt(s, j + 1, j + 1)

EmailRegexTest(s) ==
  \E i \in 1..Len(s) : \E j \in 1..Len(s) :
     /\ i < j
     /\ s[i] = "@"
     /\ s[j] = "."
     /\ NoSpaceAt(s, 1, i - 1)
     /\ NoSpaceAt(s, i + 1, j - 1)
     /\ NoSpaceAt(s, j + 1, Len(s))

\* /^[\d\s\-\+\(\)]{7,}$/.test(s)
PhoneChars == Digits \cup WhiteSpace \cup {"-", "+", "(", ")"}

PhoneRegexTest(s) == Len(s) >= 7 /\ \A k \in 1..Len(s) : s[k] \in PhoneChars

-----------------------------------------------------------------------------
(* Rule specifiers and FormValidator.checkRule *)

RULE_REQUIRED == <<"r", "e", "q", "u", "i", "r", "e", "d">>
RULE_EMAIL == <<"e", "m", "a", "i", "l">>
RULE_PHONE == <<"p", "h", "o", "n", "e">>
RULE_MINLENGTH == <<"m", "i", "n", "L", "e", "n", "g", "t", "h">>
RULE_MINLENGTH_2 == RULE_MINLENGTH \o <<":", "2">>
RULE_MINLENGTH_10 == RULE_MINLENGTH \o <<":", "1", "0">>

\* variant: minLength measures the trimmed value
checkRule_TrimmedLength(val, rule) ==
  IF rule = RULE_REQUIRED THEN Len(Trim(val)) > 0
  ELSE IF StartsWith(rule, RULE_MINLENGTH)
    THEN NumGeq(Num(Len(Trim(val))), ParseInt(SplitSecond(rule, ":")))
  ELSE IF rule = RULE_EMAIL THEN EmailRegexTest(val)
  ELSE IF rule = RULE_PHONE THEN PhoneRegexTest(val) \/ val = <<>>
  ELSE TRUE

\* variant: the phone rule without the exemption of the empty value
checkRule_PhoneMandatory(val, rule) ==
  IF rule = RULE_REQUIRED THEN Len(Trim(val)) > 0
  ELSE IF StartsWith(rule, RULE_MINLENGTH)
    THEN NumGeq(Num(Len(val)), ParseInt(SplitSecond(rule, ":")))
  ELSE IF rule = RULE_EMAIL THEN EmailRegexTest(val)
  ELSE IF rule = RULE_PHONE THEN PhoneRegexTest(val)
  ELSE TRUE

checkRule(val, rule) ==
  IF rule = RULE_REQUIRED THEN Len(Trim(val)) > 0
  ELSE IF StartsWith(rule, RULE_MINLENGTH)
    THEN NumGeq(Num(Len(val)), ParseInt(SplitSecond(rule, ":")))
  ELSE IF rule = RULE_EMAIL THEN EmailRegexTest(val)
  ELSE IF rule = RULE_PHONE THEN PhoneRegexTest(val) \/ val = <<>>
  ELSE TRUE

-----------------------------------------------------------------------------
(* Field descriptors bound by the constructor *)

\* declaration order of this.fields, the order Object.values and for..in use
FieldOrder == <<"email", "name", "phone", "message">>
FieldNames == {"email", "name", "phone", "message"}

\* this.fields: each selector is modelled by the input it designates; the four
\* selectors are taken to designate four different elements of the page
Descriptors ==
  [f \in FieldNames |->
     CASE f = "email" ->
            [selector |-> "email",
             rules    |-> <<RULE_REQUIRED, RULE_EMAIL>>,
             message  |-> "Please enter a valid email address"]
       [] f = "name" ->
            [selector |-> "name",
             rules    |-> <<RULE_REQUIRED, RULE_MINLENGTH_2>>,
             message  |-> "Name must be at least 2 characters"]
       [] f = "phone" ->
            [selector |-> "phone",
             rules    |-> <<RULE_PHONE>>,
             message  |-> "Please enter a valid phone number"]
       [] f = "message" ->
            [selector |-> "message",
             rules    |-> <<RULE_REQUIRED, RULE_MINLENGTH_10>>,
             message  |-> "Message must be at least 10 characters"]]

Messages == {Descriptors[f].message : f \in FieldNames}

-----------------------------------------------------------------------------
(* The page: the markup the script runs against *)

Containers == {"c1", "c2", "c3", "c4"}

NamedForm == [name |-> "contact", class |-> ""]
ClassedForm == [name |-> "", class |-> "contact-form"]
PlainForm == [name |-> "", class |-> ""]

OwnParent ==
  [f \in FieldNames |->
     CASE f = "email" -> "c1" [] f = "name" -> "c2"
       [] f = "phone" -> "c3" [] f = "message" -> "c4"]

\* email and name are children of the same element
SharedParent == [OwnParent EXCEPT !["name"] = "c1"]

Empty == <<>>
EmptyDefaults == [f \in FieldNames |-> Empty]

\* forms: the document's forms in document order; holder: the form holding
\* the inputs (0: none); present: the inputs that exist; parent: each input's
\* parentElement; pre: containers whose markup already holds an
\* .error-message node; defaults: each input's default value
StandardPage ==
  [forms |-> <<NamedForm>>, holder |-> 1, present |-> FieldNames,
   parent |-> OwnParent, pre |-> {}, defaults |-> EmptyDefaults]

\* a page without any form
BarePage == [StandardPage EXCEPT !.forms = <<>>, !.holder = 0]

\* the standard contact page; pages where two inputs share their container,
\* where declared inputs are missing, where the markup already holds an error
\* node, where another form precedes the contact form; and pages without a
\* form named "contact"
Pages ==
  { StandardPage,
    [StandardPage EXCEPT !.parent = SharedParent,
                         !.present = {"email", "name"}],
    [StandardPage EXCEPT !.present = {"email", "message"}],
    [StandardPage EXCEPT !.pre = {"c3", "c4"},
                         !.present = {"phone", "message"}],
    [StandardPage EXCEPT !.forms = <<PlainForm, NamedForm>>, !.holder = 2,
                         !.present = {"name", "phone"}],
    [StandardPage EXCEPT !.forms = <<ClassedForm>>, !.pre = {"c4"}],
    [StandardPage EXCEPT !.forms = <<PlainForm>>],
    BarePage }

\* the values a user types into each input
Str_a_at_b == <<"a", "@", "b">>
Str_a_at_b_co == <<"a", "@", "b", ".", "c", "o">>
Str_a == <<"a">>
Str_ab == <<"a", "b">>
Str_12345 == <<"1", "2", "3", "4", "5">>
Str_1234567 == <<"1", "2", "3", "4", "5", "6", "7">>
Str_short == <<"s", "h", "o", "r", "t">>
Str_hello_world == <<"h", "e", "l", "l", "o", " ", "w", "o", "r", "l", "d">>

Typed ==
  [f \in FieldNames |->
     CASE f = "email" -> {Empty, Str_a_at_b, Str_a_at_b_co}
       [] f = "name" -> {Empty, Str_a, Str_ab}
       [] f = "phone" -> {Empty, Str_12345, Str_1234567}
       [] f = "message" -> {Empty, Str_short, Str_hello_world}]

-----------------------------------------------------------------------------
(* DOM lookups *)

SEL_NAMED == "form[name=\"contact\"]"
SEL_CLASSED == "form.contact-form"
SEL_ANY == "form"

MatchesForm(fm, sel) ==
  CASE sel = SEL_NAMED -> fm.name = "contact"
    [] sel = SEL_CLASSED -> fm.class = "contact-form"
    [] sel = SEL_ANY -> TRUE

\* document.querySelector(sel) for a form selector: the first match in
\* document order, 0 (null) when there is none
DocQuerySelector(pg, sel) ==
  LET hits == {i \in 1..Len(pg.forms) : MatchesForm(pg.forms[i], sel)}
  IN IF hits = {} THEN 0 ELSE Min(hits)

null == "null"

\* this.form.querySelector(selector): the designated input when it exists
\* inside the bound form, null otherwise
QueryIn(pg, fm, selector) ==
  IF fm # 0 /\ pg.holder = fm /\ selector \in pg.present
    THEN selector
    ELSE null

querySelector(selector) == QueryIn(page, form, selector)

-----------------------------------------------------------------------------
(* Error marking and clearing.  d is the part of the DOM they touch:          *)
(* [cls: the inputs' field-error class, errs: the containers' error nodes].   *)

\* createErrorElement(): a fresh div.error-message with no text
createErrorElement == [text |-> "", by |-> "validator"]

\* variant: a fresh error node is created on every call
showError_NoReuse(d, element, message) ==
  LET c == page.parent[element] IN
  [cls  |-> [d.cls EXCEPT ![element] = TRUE],
   errs |-> [d.errs EXCEPT
               ![c] = Append(@, [text |-> message, by |-> "validator"])]]

\* parentElement.querySelector('.error-message') finds the first node of the
\* container; appendChild moves the node (found or fresh) to the end
showError(d, element, message) ==
  LET c     == page.parent[element]
      nodes == d.errs[c]
      found == nodes # <<>>
      errorElement == IF found THEN Head(nodes) ELSE createErrorElement
      others == IF found THEN Tail(nodes) ELSE nodes
  IN [cls  |-> [d.cls EXCEPT ![element] = TRUE],
      errs |-> [d.errs EXCEPT
                  ![c] = Append(others, [errorElement EXCEPT !.text = message])]]

clearError(d, element) ==
  LET c     == page.parent[element]
      nodes == d.errs[c]
  IN [cls  |-> [d.cls EXCEPT ![element] = FALSE],
      errs |-> IF nodes # <<>> THEN [d.errs EXCEPT ![c] = Tail(nodes)]
               ELSE d.errs]

-----------------------------------------------------------------------------
(* Field validation *)

\* findRules(element): the first bound descriptor whose selector designates
\* the element, null when there is none
RECURSIVE FindIn(_, _)
FindIn(names, element) ==
  IF names = <<>> THEN null
  ELSE IF querySelector(Descriptors[Head(names)].selector) = element
    THEN Head(names)
  ELSE FindIn(Tail(names), element)

findRules(element) == FindIn(fields, element)

\* variant: every rule is evaluated and the last failure is reported
RECURSIVE LastFailing(_, _, _)
LastFailing(rules, val, k) ==
  IF k > Len(rules) THEN 0
  ELSE LET later == LastFailing(rules, val, k + 1) IN
       IF later # 0 THEN later
       ELSE IF ~checkRule(val, rules[k]) THEN k ELSE 0

\* the for..of loop of validateField: index of the first rule that fails on
\* val, counting from position k; 0 when no rule fails
RECURSIVE FirstFailing(_, _, _)
FirstFailing(rules, val, k) ==
  IF k > Len(rules) THEN 0
  ELSE IF ~checkRule(val, rules[k]) THEN k
  ELSE FirstFailing(rules, val, k + 1)

\* validateField(element): the DOM afterwards, the value returned and the
\* number of rules that were evaluated
validateField(d, element) ==
  LET rules == findRules(element) IN
  IF rules = null THEN [dom |-> d, ok |-> TRUE, evaluated |-> 0]
  ELSE LET desc == Descriptors[rules]
           k    == FirstFailing(desc.rules, value[element], 1)
       IN IF k # 0
            THEN [dom |-> showError(d, element, desc.message),
                  ok |-> FALSE, evaluated |-> k]
            ELSE [dom |-> clearError(d, element),
                  ok |-> TRUE, evaluated |-> Len(desc.rules)]

\* variant: the flag is overwritten by each field's result
RECURSIVE ValidateAll_LastWins(_, _, _)
ValidateAll_LastWins(names, d, isValid) ==
  IF names = <<>> THEN [dom |-> d, isValid |-> isValid]
  ELSE LET element == querySelector(Descriptors[Head(names)].selector) IN
       IF element = null THEN ValidateAll_LastWins(Tail(names), d, isValid)
       ELSE LET r == validateField(d, element)
            IN ValidateAll_LastWins(Tail(names), r.dom, r.ok)

\* variant: the loop stops at the first field that fails
RECURSIVE ValidateAll_ShortCircuit(_, _, _)
ValidateAll_ShortCircuit(names, d, isValid) ==
  IF names = <<>> THEN [dom |-> d, isValid |-> isValid]
  ELSE LET element == querySelector(Descriptors[Head(names)].selector) IN
       IF element = null THEN ValidateAll_ShortCircuit(Tail(names), d, isValid)
       ELSE LET r == validateField(d, element)
            IN IF r.ok THEN ValidateAll_ShortCircuit(Tail(names), r.dom, isValid)
               ELSE [dom |-> r.dom, isValid |-> FALSE]

\* the forEach of handleSubmit over Object.values(this.fields)
RECURSIVE ValidateAll(_, _, _)
ValidateAll(names, d, isValid) ==
  IF names = <<>> THEN [dom |-> d, isValid |-> isValid]
  ELSE LET element == querySelector(Descriptors[Head(names)].selector) IN
       IF element = null THEN ValidateAll(Tail(names), d, isValid)
       ELSE LET r == validateField(d, element)
            IN ValidateAll(Tail(names), r.dom, isValid /\ r.ok)

-----------------------------------------------------------------------------
(* Construction *)

\* init(): blur and input listeners on every input found, submit on the form
InitListeners(pg, fm) ==
  UNION { {<<e, "blur">>, <<e, "input">>} :
            e \in {QueryIn(pg, fm, Descriptors[f].selector) : f \in FieldNames}
                    \ {null} }
    \cup {<<"form", "submit">>}

\* variant: without the early return, init() runs on a null form and throws
FormValidator_NoGuard(pg, formSelector) ==
  LET fm == DocQuerySelector(pg, formSelector) IN
  [form |-> fm, fields |-> <<"email", "name", "phone", "message">>,
   listeners |-> IF fm = 0 THEN {} ELSE InitListeners(pg, fm),
   thrown |-> IF fm = 0 THEN "TypeError" ELSE "none"]

\* new FormValidator(formSelector): the instance's form, fields and the
\* listeners its init() attached; inert when no form matches
FormValidator(pg, formSelector) ==
  LET fm == DocQuerySelector(pg, formSelector) IN
  IF fm = 0
    THEN [form |-> 0, fields |-> <<>>, listeners |-> {}, thrown |-> "none"]
    ELSE [form |-> fm, fields |-> FieldOrder,
          listeners |-> InitListeners(pg, fm), thrown |-> "none"]

\* ToBoolean of the value of a new expression: an object, hence true
Truthy(instance) == TRUE

\* new FormValidator(a) || new FormValidator(b) || new FormValidator(c)
contactForm(pg) ==
  LET first == FormValidator(pg, SEL_NAMED) IN
  IF Truthy(first) THEN first
  ELSE LET second == FormValidator(pg, SEL_CLASSED) IN
       IF Truthy(second) THEN second
       ELSE FormValidator(pg, SEL_ANY)

-----------------------------------------------------------------------------
(* Bounds and timing *)

\* valid submissions in one run, each creating one success banner
MaxSubmits == 2

\* the longest step of the clock, in ms
Quantum == 2000

RESET_DELAY == 2000
REMOVE_DELAY == 300

BannerIds == 1..MaxSubmits

Content == [kind |-> "content", id |-> 0]
Banner(b) == [kind |-> "banner", id |-> b]

PageNode == [text |-> "Required", by |-> "page"]

\* the validator's part of the state once the script has run on a page of pgs
ValidatorInit(pgs) ==
  /\ page \in pgs
  /\ LET inst == contactForm(page) IN
       /\ form = inst.form
       /\ fields = inst.fields
       /\ listeners = inst.listeners
       /\ error = inst.thrown
  /\ value = page.defaults
  /\ cls = [f \in FieldNames |-> FALSE]
  /\ errs = [c \in Containers |->
               IF c \in page.pre THEN <<PageNode>> ELSE <<>>]
  /\ children = <<Content>>
  /\ banners = [b \in BannerIds |-> [phase |-> "none", age |-> 0]]
  /\ timers = <<>>
  /\ navigated = FALSE
  /\ created = 0

-----------------------------------------------------------------------------
(* The document around the form: the style block the script injects and the  *)
(* stats counters it animates                                                *)

\* the validator's variables that change after the script has run
validator == <<value, cls, errs, children, banners, timers, navigated, created>>

\* no call of checkRule is under way
NoCall == [value |-> <<>>, rule |-> <<>>, state |-> "none", result |-> FALSE]

\* style elements: the one the script creates (data-animations="true"), one
\* the markup already holds with that attribute, and one without it
ScriptStyle == [animations |-> TRUE, by |-> "script"]
PageStyle == [animations |-> TRUE, by |-> "page"]
OtherStyle == [animations |-> FALSE, by |-> "page"]

\* data-counter attribute values
Attr_abc == <<"a", "b", "c">>
Attr_0 == <<"0">>
Attr_minus5 == <<"-", "5">>
Attr_3 == <<"3">>
Attr_250 == <<"2", "5", "0">>
CounterAttrs == {Attr_abc, Attr_0, Attr_minus5, Attr_3, Attr_250}

\* a document: type: how the script is loaded, as a classic script or as a
\* module; stats: whether an element with data-stats-section exists;
\* counters: the data-counter attribute of each counter element inside it, in
\* document order; styles: the style elements of the head in the markup
PlainDoc ==
  [type |-> "classic", stats |-> FALSE, counters |-> <<>>, styles |-> <<>>]

\* counter elements in a stats section
MaxCounters == 2

CounterLists ==
  UNION {[1..n -> CounterAttrs] : n \in 0..MaxCounters}

Docs ==
  {[PlainDoc EXCEPT !.type = t, !.styles = h] :
     t \in {"classic", "module"},
     h \in {<<>>, <<OtherStyle>>, <<OtherStyle, PageStyle>>}}
  \cup
  {[type |-> t, stats |-> TRUE, counters |-> c, styles |-> <<>>] :
     t \in {"classic", "module"}, c \in CounterLists}

\* the element's text: the number most recently written by animateCounter
\* (toLocaleString of it), or the markup's text when nothing was written
Markup == [written |-> FALSE, v |-> Num(0)]
Written(v) == [written |-> TRUE, v |-> v]

\* the state outside the validator when the script has run once, as a classic
\* script, on a document without stats section
OutsideAtRest ==
  /\ call = NoCall
  /\ doc = PlainDoc
  /\ head = <<ScriptStyle>>
  /\ runs = <<"completed">>
  /\ counted = FALSE
  /\ observing = {}
  /\ intervals = <<>>
  /\ text = <<>>

Init == ValidatorInit(Pages) /\ OutsideAtRest

Dom == [cls |-> cls, errs |-> errs]

-----------------------------------------------------------------------------
(* The success sequence *)

\* variant: the reset is scheduled with the delay meant for the removal
submitForm_ShortDelay(b) ==
  /\ created' = b
  /\ children' = <<[kind |-> "banner", id |-> b]>> \o children
  /\ banners' = [banners EXCEPT ![b] = [phase |-> "shown", age |-> 0]]
  /\ timers' = Append(timers, [cb |-> "reset", banner |-> b,
                               delay |-> REMOVE_DELAY, left |-> REMOVE_DELAY])

\* submitForm(): the banner becomes the form's first child and the reset is
\* scheduled RESET_DELAY ms ahead
submitForm(b) ==
  /\ created' = b
  /\ children' = <<Banner(b)>> \o children
  /\ banners' = [banners EXCEPT ![b] = [phase |-> "shown", age |-> 0]]
  /\ timers' = Append(timers, [cb |-> "reset", banner |-> b,
                               delay |-> RESET_DELAY, left |-> RESET_DELAY])

RemoveAt(s, i) == SubSeq(s, 1, i - 1) \o SubSeq(s, i + 1, Len(s))

\* timer i is due, and no timer set earlier with a delay no longer than its
\* own is still waiting to run
MayRun(i) ==
  /\ i \in 1..Len(timers)
  /\ timers[i].left = 0
  /\ \A j \in 1..(i - 1) :
       ~(timers[j].left = 0 /\ timers[j].delay <= timers[i].delay)

\* variant: the reset also takes the error class off every input
ResetCallback_ClearsMarks(i) ==
  LET b == timers[i].banner IN
  /\ ~navigated
  /\ MayRun(i)
  /\ timers[i].cb = "reset"
  /\ value' = [f \in FieldNames |->
                 IF QueryIn(page, form, f) # null THEN page.defaults[f]
                 ELSE value[f]]
  /\ cls' = [f \in FieldNames |-> FALSE]
  /\ banners' = [banners EXCEPT ![b].phase = "leaving"]
  /\ timers' = Append(RemoveAt(timers, i),
                      [cb |-> "remove", banner |-> b,
                       delay |-> REMOVE_DELAY, left |-> REMOVE_DELAY])
  /\ UNCHANGED <<outside, binding, errs, children, navigated, created>>

\* the outer callback: form.reset(), the slideOut animation, and the removal
\* scheduled REMOVE_DELAY ms ahead
ResetCallback(i) ==
  LET b == timers[i].banner IN
  /\ ~navigated
  /\ MayRun(i)
  /\ timers[i].cb = "reset"
  /\ value' = [f \in FieldNames |->
                 IF QueryIn(page, form, f) # null THEN page.defaults[f]
                 ELSE value[f]]
  /\ banners' = [banners EXCEPT ![b].phase = "leaving"]
  /\ timers' = Append(RemoveAt(timers, i),
                      [cb |-> "remove", banner |-> b,
                       delay |-> REMOVE_DELAY, left |-> REMOVE_DELAY])
  /\ UNCHANGED <<outside, binding, cls, errs, children, navigated,
                 created>>

\* variant: the callback removes whatever is the form's first child
Removed_FirstChild(b) == Head(children)

\* the node successMessage.remove() takes out of the form
Removed(b) == Banner(b)

\* the inner callback: successMessage.remove()
RemoveCallback(i) ==
  LET b == timers[i].banner IN
  /\ ~navigated
  /\ MayRun(i)
  /\ timers[i].cb = "remove"
  /\ children' = SelectSeq(children, LAMBDA n : n # Removed(b))
  /\ banners' = [banners EXCEPT ![b] = [phase |-> "none", age |-> 0]]
  /\ timers' = RemoveAt(timers, i)
  /\ UNCHANGED <<outside, binding, value, cls, errs, navigated,
                 created>>

\* time passes, up to the next deadline and by Quantum at most
Tick ==
  /\ ~navigated
  /\ timers # <<>>
  /\ \A i \in 1..Len(timers) : timers[i].left > 0
  /\ LET d == Min({Quantum} \cup {timers[i].left : i \in 1..Len(timers)}) IN
       /\ timers' = [i \in 1..Len(timers) |->
                       [timers[i] EXCEPT !.left = @ - d]]
       /\ banners' = [b \in BannerIds |->
                        IF banners[b].phase = "none" THEN banners[b]
                        ELSE [banners[b] EXCEPT !.age = @ + d]]
  /\ UNCHANGED <<outside, binding, value, cls, errs, children,
                 navigated, created>>

-----------------------------------------------------------------------------
(* Events *)

\* variant: the input listener validates the field again
InputEvent_Revalidates(e, v) ==
  /\ ~navigated
  /\ e \in page.present
  /\ v \in Typed[e]
  /\ value' = [value EXCEPT ![e] = v]
  /\ LET handled == <<e, "input">> \in listeners
         k == FirstFailing(Descriptors[e].rules, v, 1)
         d == IF ~handled THEN Dom
              ELSE IF k # 0 THEN showError(Dom, e, Descriptors[e].message)
              ELSE clearError(Dom, e)
     IN /\ cls' = d.cls
        /\ errs' = d.errs
  /\ UNCHANGED <<outside, binding, children, banners, timers, navigated, created>>

\* the user edits an input: its value changes and an input event is
\* dispatched, which the listener of init() answers with clearError
InputEvent(e, v) ==
  /\ ~navigated
  /\ e \in page.present
  /\ v \in Typed[e]
  /\ value' = [value EXCEPT ![e] = v]
  /\ LET handled == <<e, "input">> \in listeners
         d == IF handled THEN clearError(Dom, e) ELSE Dom
     IN /\ cls' = d.cls
        /\ errs' = d.errs
  /\ UNCHANGED <<outside, binding, children, banners, timers,
                 navigated, created>>

\* an input loses focus: the listener of init() answers with validateField
BlurEvent(e) ==
  /\ ~navigated
  /\ e \in page.present
  /\ LET handled == <<e, "blur">> \in listeners
         r == IF handled THEN validateField(Dom, e)
              ELSE [dom |-> Dom, ok |-> TRUE, evaluated |-> 0]
     IN /\ cls' = r.dom.cls
        /\ errs' = r.dom.errs
  /\ UNCHANGED <<outside, binding, value, children, banners,
                 timers, navigated, created>>

\* handleSubmit(e), run by the submit listener of the bound form
handleSubmit ==
  /\ ~navigated
  /\ form # 0
  /\ <<"form", "submit">> \in listeners
  /\ LET r == ValidateAll(fields, Dom, TRUE) IN
       /\ cls' = r.dom.cls
       /\ errs' = r.dom.errs
       /\ IF r.isValid
            THEN /\ created < MaxSubmits
                 /\ submitForm(created + 1)
            ELSE /\ UNCHANGED <<children, banners, timers, created>>
  /\ UNCHANGED <<outside, binding, value, navigated>>

\* a submit event on a form without submit listener: nothing prevents the
\* default action and the browser leaves the page
DefaultSubmit(i) ==
  /\ ~navigated
  /\ i \in 1..Len(page.forms)
  /\ ~(i = form /\ <<"form", "submit">> \in listeners)
  /\ navigated' = TRUE
  /\ UNCHANGED <<outside, binding, value, cls, errs, children,
                 banners, timers, created>>

Next ==
  \/ \E e \in FieldNames : \E v \in Typed[e] : InputEvent(e, v)
  \/ \E e \in FieldNames : BlurEvent(e)
  \/ handleSubmit
  \/ \E i \in 1..Len(page.forms) : DefaultSubmit(i)
  \/ \E i \in 1..Len(timers) : ResetCallback(i)
  \/ \E i \in 1..Len(timers) : RemoveCallback(i)
  \/ Tick

Spec == Init /\ [][Next]_vars

\* showError and clearError called directly, in any order, on the inputs of
\* the page and with any of the four messages
CallShowError(e, m) ==
  /\ e \in page.present
  /\ LET d == showError(Dom, e, m) IN cls' = d.cls /\ errs' = d.errs
  /\ UNCHANGED <<outside, binding, value, children, banners, timers, navigated, created>>

CallClearError(e) ==
  /\ e \in page.present
  /\ LET d == clearError(Dom, e) IN cls' = d.cls /\ errs' = d.errs
  /\ UNCHANGED <<outside, binding, value, children, banners, timers, navigated, created>>

NextMark ==
  \/ \E e \in FieldNames : \E m \in Messages : CallShowError(e, m)
  \/ \E e \in FieldNames : CallClearError(e)

SpecMark == Init /\ [][NextMark]_vars

\* the event loop runs every timer that is due, and time does not stop
FairSpec ==
  /\ Spec
  /\ WF_vars(Tick)
  /\ WF_vars(\E i \in 1..Len(timers) : ResetCallback(i))
  /\ WF_vars(\E i \in 1..Len(timers) : RemoveCallback(i))

-----------------------------------------------------------------------------
(* Calls of checkRule on its own: any value with any rule specifier *)

\* longest e-mail value, phone value and other value given to checkRule
MaxEmailLen == 6
MaxPhoneLen == 8
MaxLen == 10

\* largest N of a specifier 'minLength:N'
MaxN == 11

\* the strings over alphabet A of length n at most
Strings(A, n) == UNION {[1..k -> A] : k \in 0..n}

\* String(n) of a non-negative integer
RECURSIVE Decimal(_)
Decimal(n) ==
  LET last == CHOOSE c \in Digits : DigitVal(c) = n % 10 IN
  IF n < 10 THEN <<last>> ELSE Append(Decimal(n \div 10), last)

\* 'minLength:N'
MinLengthRule(n) == RULE_MINLENGTH \o <<":">> \o Decimal(n)

Str_at_b_co == <<"@", "b", ".", "c", "o">>
Str_abc_defg == <<"a", "b", "c", "-", "d", "e", "f", "g">>
Str_intl == <<"+", "1", " ", "(", "2", "3", "4", ")", "\t", "5", "6", "-", "7">>
Str_paren == <<"(", "1", "2", ")", " ", "3">>

EmailValues ==
  Strings({"a", "@", ".", " "}, MaxEmailLen)
    \cup {Str_a_at_b_co, Str_a_at_b, Str_at_b_co}

PhoneValues ==
  Strings({"1", "-", "a"}, MaxPhoneLen)
    \cup {Str_12345, Str_1234567, Str_abc_defg, Str_intl, Str_paren,
          Str_intl \o <<"x">>, <<" ">>, <<"\n", "1", "2", "3", "4", "5", "6">>}

OtherValues == Strings({"a", " "}, MaxLen)

\* specifiers that are none of 'required', 'email', 'phone', 'minLength:N'
RULE_minLength_abc == RULE_MINLENGTH \o <<":", "a", "b", "c">>
RULE_minLengthy == RULE_MINLENGTH \o <<"y">>
RULE_minLength_colon == RULE_MINLENGTH \o <<":">>
RULE_minlength_2 == <<"m", "i", "n", "l", "e", "n", "g", "t", "h", ":", "2">>
RULE_url == <<"u", "r", "l">>
RULE_Required == <<"R", "e", "q", "u", "i", "r", "e", "d">>
RULE_email_space == RULE_EMAIL \o <<" ">>

OtherRules ==
  {RULE_MINLENGTH, RULE_minLength_abc, RULE_minLengthy, RULE_minLength_colon,
   RULE_minlength_2, RULE_url, RULE_Required, RULE_email_space, <<>>}

MinLengthRules == {MinLengthRule(n) : n \in 0..MaxN}

CheckInputs ==
  ({RULE_EMAIL} \X EmailValues)
    \cup ({RULE_PHONE} \X PhoneValues)
    \cup ((MinLengthRules \cup {RULE_REQUIRED} \cup OtherRules) \X OtherValues)

InitCheck ==
  /\ ValidatorInit({BarePage})
  /\ \E in \in CheckInputs :
       call = [value |-> in[2], rule |-> in[1], state |-> "ready",
               result |-> FALSE]
  /\ doc = PlainDoc
  /\ head = <<ScriptStyle>>
  /\ runs = <<"completed">>
  /\ counted = FALSE
  /\ observing = {}
  /\ intervals = <<>>
  /\ text = <<>>

\* this.checkRule(value, rule) is called and returns
CallCheckRule ==
  /\ call.state = "ready"
  /\ call' = [call EXCEPT !.state = "returned",
                          !.result = checkRule(call.value, call.rule)]
  /\ UNCHANGED <<binding, validator, doc, head, runs, counted, observing,
                 intervals, text>>

NextCheck == CallCheckRule

SpecCheck == InitCheck /\ [][NextCheck]_vars

-----------------------------------------------------------------------------
(* Executions of the script in a document: style injection, the stats        *)
(* observer and the counter animations                                       *)

\* executions of the script in one document
MaxRuns == 3

\* animateCounter's default duration and the period of its interval, in ms
DURATION == 2000
FRAME == 16

\* duration / 16: the number of increments that make up the target.  The
\* interval's current value is kept in units of 1/Steps, in which the
\* increment target / (duration / 16) is the target itself.
Steps == DURATION \div FRAME

\* a + b on JavaScript numbers
NumAdd(a, b) == IF a.nan \/ b.nan THEN NaN ELSE Num(a.n + b.n)

HasAnimations(h) == \E i \in 1..Len(h) : h[i].animations

\* variant: the style block is appended without looking for an existing one
InjectStyles_Unguarded(h) == Append(h, ScriptStyle)

\* if (!document.querySelector('style[data-animations]')) { ... appendChild }
InjectStyles(h) == IF HasAnimations(h) THEN h ELSE Append(h, ScriptStyle)

InitScript ==
  /\ ValidatorInit({BarePage})
  /\ call = NoCall
  /\ doc \in Docs
  /\ head = doc.styles
  /\ runs = <<>>
  /\ counted = FALSE
  /\ observing = {}
  /\ intervals = <<>>
  /\ text = [e \in 1..Len(doc.counters) |-> Markup]

\* the script is executed.  Executed again as a classic script it ends at
\* once with a SyntaxError, its top-level const and class declarations being
\* declared already, and no statement of it runs; as a module every execution
\* runs in a scope of its own: it creates a statsObserver that observes the
\* stats section, and it injects the style block
ExecuteScript ==
  /\ Len(runs) < MaxRuns
  /\ IF doc.type = "classic" /\ runs # <<>>
       THEN /\ runs' = Append(runs, "SyntaxError")
            /\ UNCHANGED <<head, observing>>
       ELSE /\ runs' = Append(runs, "completed")
            /\ observing' = IF doc.stats THEN observing \cup {Len(runs) + 1}
                            ELSE observing
            /\ head' = InjectStyles(head)
  /\ UNCHANGED <<binding, validator, call, doc, counted, intervals, text>>

\* animateCounter(element, target): the interval it sets
animateCounter(element, target) ==
  [element |-> element, target |-> target, current |-> Num(0),
   active |-> TRUE, due |-> FALSE]

\* the callback of the statsObserver of execution o, for an entry of the
\* stats section that is intersecting
StatsIntersect(o) ==
  /\ o \in observing
  /\ IF ~counted
       THEN /\ intervals' =
                 intervals \o
                   [e \in 1..Len(doc.counters) |->
                      animateCounter(e, ParseInt(doc.counters[e]))]
            /\ counted' = TRUE
            /\ observing' = observing \ {o}
       ELSE UNCHANGED <<intervals, counted, observing>>
  /\ UNCHANGED <<binding, validator, call, doc, head, runs, text>>

\* 16 ms pass: every interval that is set becomes due
Frame ==
  /\ \E i \in 1..Len(intervals) : intervals[i].active
  /\ \A i \in 1..Len(intervals) : ~intervals[i].due
  /\ intervals' = [i \in 1..Len(intervals) |->
                     [intervals[i] EXCEPT !.due = intervals[i].active]]
  /\ UNCHANGED <<binding, validator, call, doc, head, runs, counted,
                 observing, text>>

\* what one run of the interval callback can do, current being the value
\* after the addition: whether it clears the interval, and the number it
\* writes.  The sums are computed in binary floating point: they are exact
\* when the increment is an integer; otherwise a sum whose exact value is an
\* integer may come out just below it.
CallbackOutcomes(target, current) ==
  IF current.nan \/ target.nan
    THEN {[done |-> FALSE, shown |-> NaN]}
  ELSE LET exact   == target.n % Steps = 0
           q       == current.n \div Steps
           onWhole == current.n % Steps = 0
       IN IF current.n > target.n * Steps
            THEN {[done |-> TRUE, shown |-> target]}
          ELSE IF current.n = target.n * Steps
            THEN {[done |-> TRUE, shown |-> target]}
                   \cup (IF exact THEN {}
                         ELSE {[done |-> FALSE, shown |-> Num(q - 1)]})
          ELSE {[done |-> FALSE, shown |-> Num(q)]}
                 \cup (IF onWhole /\ ~exact
                         THEN {[done |-> FALSE, shown |-> Num(q - 1)]}
                         ELSE {})

\* the callback of interval i runs: intervals due together run in the order
\* they were set
CounterCallback(i) ==
  /\ i \in 1..Len(intervals)
  /\ intervals[i].due
  /\ \A j \in 1..(i - 1) : ~intervals[j].due
  /\ LET t       == intervals[i]
         current == NumAdd(t.current, t.target)
     IN \E o \in CallbackOutcomes(t.target, current) :
          /\ intervals' = [intervals EXCEPT
                             ![i] = [t EXCEPT !.current = current,
                                              !.due = FALSE,
                                              !.active = ~o.done]]
          /\ text' = [text EXCEPT ![t.element] = Written(o.shown)]
  /\ UNCHANGED <<binding, validator, call, doc, head, runs, counted,
                 observing>>

NextScript ==
  \/ ExecuteScript
  \/ \E o \in 1..MaxRuns : StatsIntersect(o)
  \/ Frame
  \/ \E i \in 1..Len(intervals) : CounterCallback(i)

SpecScript == InitScript /\ [][NextScript]_vars

\* time passes and the event loop runs every interval callback that is due
FairScript ==
  /\ SpecScript
  /\ WF_vars(Frame)
  /\ WF_vars(\E i \in 1..Len(intervals) : CounterCallback(i))

-----------------------------------------------------------------------------
(* Vocabulary of the properties *)

\* the input of descriptor f exists inside the bound form
Present(f) == querySelector(Descriptors[f].selector) # null

\* every rule of f's descriptor passes on the input's current value
FieldValid(f) ==
  \A k \in 1..Len(Descriptors[f].rules) :
     checkRule(value[f], Descriptors[f].rules[k])

BannersIn(seq) == {seq[k].id : k \in {j \in 1..Len(seq) : seq[j].kind = "banner"}}

ResetTimer(b) ==
  [cb |-> "reset", banner |-> b, delay |-> RESET_DELAY, left |-> RESET_DELAY]

-----------------------------------------------------------------------------
(* C1: handleSubmit inserts the success banner and schedules the reset if    *)
(* and only if every declared field present in the form passes               *)
(* validateField; otherwise no banner is inserted and no timer is scheduled, *)
(* so that submission never resets the form.  Either way the default action  *)
(* of the submit event is prevented: the page is not left.                   *)
C1_SubmitGate ==
  [][handleSubmit =>
       /\ ~navigated'
       /\ IF \A f \in FieldNames : Present(f) => validateField(Dom, f).ok
            THEN /\ BannersIn(children') = BannersIn(children) \cup {created'}
                 /\ created' \notin BannersIn(children)
                 /\ timers' = Append(timers, ResetTimer(created'))
            ELSE /\ children' = children
                 /\ timers' = timers
                 /\ value' = value]_vars

\* a fully valid submission has just run: its banner heads the form and its
\* reset is pending, on the page where all four inputs exist
C1_Witness ==
  /\ page = StandardPage
  /\ created = 1
  /\ Head(children) = Banner(1)
  /\ timers = <<ResetTimer(1)>>
  /\ \A f \in FieldNames : FieldValid(f) /\ ~cls[f]

\* C2: handleSubmit validates every declared field without short-circuit:
\* in the DOM it leaves, each field present in the form carries the error
\* class exactly when its value fails one of its rules.
C2_AllFieldsChecked ==
  form # 0 =>
    LET r == ValidateAll(fields, Dom, TRUE) IN
    \A f \in FieldNames :
       Present(f) => (r.dom.cls[f] <=> ~FieldValid(f))

\* two invalid fields are marked and the valid one between them is not,
\* while the last field is valid
C2_Witness ==
  /\ page = StandardPage
  /\ value["email"] = Str_a_at_b /\ cls["email"]
  /\ value["name"] = Str_ab /\ ~cls["name"]
  /\ value["phone"] = Str_12345 /\ cls["phone"]
  /\ value["message"] = Str_hello_world /\ ~cls["message"]
  /\ children = <<Content>>

-----------------------------------------------------------------------------
(* C3: the success sequence runs in order and is never cancelled: the        *)
(* banner is inserted as the form's first child at submission; the form is   *)
(* reset RESET_DELAY ms later and not before; the banner is removed          *)
(* REMOVE_DELAY ms after the reset and never before it; and with timers      *)
(* firing fairly every inserted banner is eventually removed (unless the     *)
(* page itself is left).                                                     *)
Pending(b, cb) == \E i \in 1..Len(timers) : timers[i].banner = b /\ timers[i].cb = cb

C3_Order ==
  \A b \in BannerIds :
     \* insertion: first child, age 0, reset pending
     /\ (b \notin BannersIn(children) /\ b \in BannersIn(children'))
          => /\ Head(children') = Banner(b)
             /\ banners'[b] = [phase |-> "shown", age |-> 0]
     \* the form reset of b's sequence
     /\ (banners[b].phase = "shown" /\ banners'[b].phase # "shown")
          => /\ banners[b].age = RESET_DELAY
             /\ banners'[b].phase = "leaving"
             /\ b \in BannersIn(children')
             /\ \A f \in FieldNames : Present(f) => value'[f] = page.defaults[f]
     \* the removal of b
     /\ (b \in BannersIn(children) /\ b \notin BannersIn(children'))
          => /\ banners[b].phase = "leaving"
             /\ banners[b].age = RESET_DELAY + REMOVE_DELAY

\* a sequence under way always has its next timer pending
C3_NotCancelled ==
  \A b \in BannerIds :
     /\ b \in BannersIn(children) <=> banners[b].phase # "none"
     /\ banners[b].phase = "shown" => Pending(b, "reset") /\ banners[b].age <= RESET_DELAY
     /\ banners[b].phase = "leaving" =>
          Pending(b, "remove") /\ banners[b].age >= RESET_DELAY

\* C3: insertion as first child, reset at RESET_DELAY, removal REMOVE_DELAY
\* later, never cancelled, and every banner eventually removed
C3_SuccessSequence ==
  /\ [][C3_Order]_vars
  /\ [](~navigated => C3_NotCancelled)
  /\ \A b \in BannerIds :
       (b \in BannersIn(children)) ~> (b \notin BannersIn(children) \/ navigated)

\* the form was reset 2000 ms after the submission, the typed values are
\* gone and the banner, 2300 ms old, is about to be removed
C3_Witness ==
  /\ page = StandardPage
  /\ banners[1] = [phase |-> "leaving", age |-> RESET_DELAY + REMOVE_DELAY]
  /\ children = <<Banner(1), Content>>
  /\ value = page.defaults

\* C4: success sequences do not exclude each other: the banners in the form
\* are exactly those of the valid submissions whose removal has not run yet,
\* each removal takes out its own banner only, and banners leave in the
\* order they were inserted.
C4_Count ==
  /\ Cardinality({k \in 1..Len(children) : children[k].kind = "banner"})
       = Cardinality({b \in 1..created : banners[b].phase # "none"})
  /\ BannersIn(children) = {b \in 1..created : banners[b].phase # "none"}

C4_OwnBanner ==
  \A i \in 1..Len(timers) :
     RemoveCallback(i) =>
       LET b == timers[i].banner IN
       /\ BannersIn(children') = BannersIn(children) \ {b}
       /\ b \in BannersIn(children)
       /\ \A o \in BannersIn(children) : b <= o
       /\ children' = SelectSeq(children, LAMBDA n : n # Banner(b))

\* C4: banners in the form = sequences not yet finished; each removal takes
\* its own banner, oldest first
C4_NoMutualExclusion ==
  /\ [](~navigated => C4_Count)
  /\ [][C4_OwnBanner]_vars

\* a second valid submission made while the first banner was leaving: both
\* banners are in the form, the newer one first
C4_Witness ==
  /\ children = <<Banner(2), Banner(1), Content>>
  /\ banners[1].phase = "leaving"
  /\ banners[2].phase = "shown"

-----------------------------------------------------------------------------
(* C5: marking and clearing are idempotent.  After any sequence of showError *)
(* and clearError calls a container holds at most one error node; showError  *)
(* twice with one message leaves exactly one node with that text and the     *)
(* error class set; clearError twice, or on a field never marked, leaves no  *)
(* node and no error class.                                                  *)
C5_Idempotent ==
  \A e \in page.present :
     LET c == page.parent[e] IN
     /\ Len(errs[c]) <= 1
     /\ \A m \in Messages :
          LET once  == showError(Dom, e, m)
              twice == showError(once, e, m)
          IN /\ twice = once
             /\ Len(twice.errs[c]) = 1
             /\ twice.errs[c][1].text = m
             /\ twice.cls[e]
     /\ LET once  == clearError(Dom, e)
            twice == clearError(once, e)
        IN /\ twice = once
           /\ twice.errs[c] = <<>>
           /\ ~twice.cls[e]

\* the email input is marked and its container holds one node, created by
\* the validator and carrying another field's message: showError has run on
\* it more than once
C5_Witness ==
  /\ page = StandardPage
  /\ cls["email"]
  /\ errs["c1"] = <<[text |-> Descriptors["phone"].message, by |-> "validator"]>>

\* C6: validateField returns true exactly when every rule of the descriptor
\* passes.  On the first failing rule it marks the field once with the
\* descriptor's message, evaluates no later rule and returns false; when all
\* rules pass it removes the marker and returns true.
C6_ValidateField ==
  \A e \in FieldNames :
     Present(e) =>
       LET r     == validateField(Dom, e)
           c     == page.parent[e]
           rules == Descriptors[e].rules
           fails == {k \in 1..Len(rules) : ~checkRule(value[e], rules[k])}
       IN /\ r.ok <=> FieldValid(e)
          /\ ~r.ok =>
               /\ r.evaluated = Min(fails)
               /\ r.dom.cls[e]
               /\ Len(r.dom.errs[c]) = 1
               /\ r.dom.errs[c][1].text = Descriptors[e].message
          /\ r.ok =>
               /\ r.evaluated = Len(rules)
               /\ ~r.dom.cls[e]
               /\ r.dom.errs[c] = <<>>

\* validateField has failed on the second rule of the email field and on the
\* first rule of the message field
C6_Witness ==
  /\ page = StandardPage
  /\ value["email"] = Str_a_at_b /\ cls["email"]
  /\ errs["c1"] = <<[text |-> Descriptors["email"].message, by |-> "validator"]>>
  /\ value["message"] = Empty /\ cls["message"]
  /\ errs["c4"] = <<[text |-> Descriptors["message"].message, by |-> "validator"]>>

\* C7: each field is Clean (no error class) initially; it turns to Error only
\* by a validateField that fails, on its blur or on submit, and back to Clean
\* only by an input event on it or a validateField that succeeds; no other
\* step (a timer, the form reset, an event on another field) changes it.
C7_Transitions ==
  \A f \in FieldNames :
     /\ (~cls[f] /\ cls'[f]) =>
          /\ BlurEvent(f) \/ handleSubmit
          /\ ~FieldValid(f)
     /\ (cls[f] /\ ~cls'[f]) =>
          \/ \E v \in Typed[f] : InputEvent(f, v)
          \/ (BlurEvent(f) \/ handleSubmit) /\ FieldValid(f)

\* where every input has a container of its own and the markup holds no
\* error node, the class and the message node tell the same state
C7_Paired ==
  (page.pre = {} /\ \A f, g \in page.present :
                      page.parent[f] = page.parent[g] => f = g)
    => \A f \in FieldNames :
          /\ Present(f) =>
               (cls[f] <=> errs[page.parent[f]] =
                             <<[text |-> Descriptors[f].message,
                                by |-> "validator"]>>)
          /\ Present(f) => (~cls[f] <=> errs[page.parent[f]] = <<>>)
          /\ ~Present(f) => ~cls[f]

\* C7: Clean initially, and only the transitions of the two-state machine
C7_FieldStateMachine ==
  /\ \A f \in FieldNames : ~cls[f]
  /\ [][C7_Transitions]_vars
  /\ []C7_Paired

\* the form reset has run while the phone field was in Error: the field is
\* still in Error, with its value back to the default
C7_Witness ==
  /\ cls["phone"]
  /\ value["phone"] = Empty
  /\ banners[1].phase = "leaving"

\* C8: an input event clears the field's marker without evaluating any rule,
\* whatever the new value; the field then stays Clean, even with an invalid
\* value, until a blur on it or a submit validates it again.
C8_InputStep ==
  \A e \in FieldNames :
     /\ \A v \in Typed[e] :
          (InputEvent(e, v) /\ <<e, "input">> \in listeners) => ~cls'[e]
     /\ (~cls[e] /\ cls'[e]) => (BlurEvent(e) \/ handleSubmit)

\* C8: input clears unconditionally; Clean lasts until blur or submit
C8_InputClears == [][C8_InputStep]_vars

\* an invalid value was typed into the name input, which is Clean, while
\* other events went on (a banner is shown)
C8_Witness ==
  /\ page = StandardPage
  /\ value["name"] = Str_a
  /\ ~cls["name"]
  /\ ~FieldValid("name")
  /\ errs["c2"] = <<>>
  /\ banners[1].phase = "shown"

-----------------------------------------------------------------------------
(* C9: the form is located by three lookups tried in order: the form named   *)
(* "contact", else the form of class "contact-form", else the first form of  *)
(* the document; the validator is bound to the form found and its listeners  *)
(* are attached.                                                             *)
FallbackForm(pg) ==
  IF DocQuerySelector(pg, SEL_NAMED) # 0 THEN DocQuerySelector(pg, SEL_NAMED)
  ELSE IF DocQuerySelector(pg, SEL_CLASSED) # 0
    THEN DocQuerySelector(pg, SEL_CLASSED)
  ELSE DocQuerySelector(pg, SEL_ANY)

\* C9: the validator is bound to the form the three lookups yield, with its
\* listeners attached
C9_Fallback ==
  /\ form = FallbackForm(page)
  /\ FallbackForm(page) # 0 =>
       /\ <<"form", "submit">> \in listeners
       /\ \A f \in page.present :
            page.holder = FallbackForm(page) =>
              <<f, "blur">> \in listeners /\ <<f, "input">> \in listeners

\* C10: when no form matches the locating expression, construction raises no
\* error and the instance is inert: no descriptors, no listeners, and no
\* event makes it mark, clear, reset or insert anything.
InitialErrs ==
  [c \in Containers |-> IF c \in page.pre THEN <<PageNode>> ELSE <<>>]

\* C10: without a matching form the instance is inert and nothing is raised
C10_Inert ==
  DocQuerySelector(page, SEL_NAMED) = 0 =>
    /\ error = "none"
    /\ form = 0
    /\ fields = <<>>
    /\ listeners = {}
    /\ \A f \in FieldNames : ~cls[f]
    /\ errs = InitialErrs
    /\ children = <<Content>>
    /\ timers = <<>>
    /\ created = 0

\* on a page whose only form is not named "contact", invalid values were
\* typed and the form was submitted: nothing was marked, the error node of
\* the markup is still there and the browser left the page
C10_Witness ==
  /\ DocQuerySelector(page, SEL_NAMED) = 0
  /\ page.pre # {}
  /\ value["email"] = Str_a_at_b
  /\ value["name"] = Str_a
  /\ navigated

-----------------------------------------------------------------------------
(* C11: a submission in which every field is valid removes and rewrites no   *)
(* error node it does not own: a node that the validator did not create for  *)
(* a field of the container it sits in is still there, with the same text,   *)
(* after handleSubmit.                                                       *)

\* node n of container c was created by the validator for a field of c
Owned(n, c) ==
  /\ n.by = "validator"
  /\ \E f \in FieldNames :
       Present(f) /\ page.parent[f] = c /\ n.text = Descriptors[f].message

\* C11: on an all-valid handleSubmit every error node not owned by the
\* validator stays in its container with its text
C11_KeepsForeignErrors ==
  [][(handleSubmit /\ ValidateAll(fields, Dom, TRUE).isValid) =>
       \A c \in Containers : \A k \in 1..Len(errs[c]) :
          ~Owned(errs[c][k], c) =>
            \E j \in 1..Len(errs'[c]) : errs'[c][j] = errs[c][k]]_vars

-----------------------------------------------------------------------------
(* Vocabulary of the claims about checkRule *)

\* checkRule has returned from a call with rule specifier r
Returned(r) == call.state = "returned" /\ call.rule = r

IsDigit(c) == c \in {"0", "1", "2", "3", "4", "5", "6", "7", "8", "9"}
IsSpace(c) == c \in {" ", "\t", "\n"}

\* C12: checkRule(value, 'phone') passes if and only if the value is empty,
\* or it consists only of digits, white space, hyphens, plus signs and
\* parentheses and has at least 7 characters; "" and "1234567" pass, "12345"
\* and "abc-defg" fail.
C12_Phone ==
  Returned(RULE_PHONE) =>
    LET v == call.value IN
    /\ call.result <=>
         \/ Len(v) = 0
         \/ /\ Len(v) >= 7
            /\ \A k \in 1..Len(v) :
                 \/ IsDigit(v[k]) \/ IsSpace(v[k])
                 \/ v[k] = "-" \/ v[k] = "+" \/ v[k] = "(" \/ v[k] = ")"
    /\ v \in {Empty, Str_1234567} => call.result
    /\ v \in {Str_12345, Str_abc_defg} => ~call.result

\* the phone rule has passed on the empty value
C12_Witness ==
  /\ Returned(RULE_PHONE)
  /\ call.value = Empty
  /\ call.result

-----------------------------------------------------------------------------
(* C13: the e-mail rule *)

Ats(v) == {k \in 1..Len(v) : v[k] = "@"}

\* the claim as worded: exactly one '@', some non-white-space character on
\* each side of it, and a '.' after it whose two neighbours are characters
\* of the value other than white space (and other than the '@' itself)
EmailAsWorded(v) ==
  \E i \in 1..Len(v) :
     /\ Ats(v) = {i}
     /\ \E k \in 1..(i - 1) : ~IsSpace(v[k])
     /\ \E k \in (i + 1)..Len(v) : ~IsSpace(v[k])
     /\ \E j \in (i + 1)..(Len(v) - 1) :
          /\ v[j] = "."
          /\ ~IsSpace(v[j - 1]) /\ v[j - 1] # "@"
          /\ ~IsSpace(v[j + 1])

\* C13 as stated: checkRule(value, 'email') passes if and only if the value
\* contains exactly one '@', has at least one non-white-space character on
\* each side of it, and has a '.' after the '@' with non-white-space on both
\* sides of that dot.
C13_EmailAsWorded ==
  Returned(RULE_EMAIL) => (call.result <=> EmailAsWorded(call.value))

\* C13, amended: checkRule(value, 'email') passes if and only if the value
\* contains no white space, contains exactly one '@' with at least one
\* character before it, and has a '.' after the '@' with at least one
\* character between the '@' and that dot and at least one character after
\* it; "a@b.co" passes, "a@b", "@b.co" and "" fail.
C13_Email ==
  Returned(RULE_EMAIL) =>
    LET v == call.value IN
    /\ call.result <=>
         /\ \A k \in 1..Len(v) : ~IsSpace(v[k])
         /\ Cardinality(Ats(v)) = 1
         /\ \A i \in Ats(v) :
              /\ i > 1
              /\ \E j \in (i + 2)..(Len(v) - 1) : v[j] = "."
    /\ v = Str_a_at_b_co => call.result
    /\ v \in {Str_a_at_b, Str_at_b_co, Empty} => ~call.result

\* the e-mail rule has passed on "a@b.co"
C13_Witness ==
  /\ Returned(RULE_EMAIL)
  /\ call.value = Str_a_at_b_co
  /\ call.result

-----------------------------------------------------------------------------
(* C14: rule evaluation is permissive by default: for every value and every  *)
(* rule specifier that is not exactly 'required', 'email', 'phone' or of the *)
(* form 'minLength:N' with a numeric N, checkRule returns true.              *)

\* a specifier 'minLength:N' where N is one or more decimal digits
IsMinLengthN(r) ==
  /\ Len(r) > Len(RULE_MINLENGTH) + 1
  /\ SubSeq(r, 1, Len(RULE_MINLENGTH) + 1) = RULE_MINLENGTH \o <<":">>
  /\ \A k \in (Len(RULE_MINLENGTH) + 2)..Len(r) : IsDigit(r[k])

Recognised(r) ==
  r \in {RULE_REQUIRED, RULE_EMAIL, RULE_PHONE} \/ IsMinLengthN(r)

\* C14: a specifier that is not recognised passes on every value
C14_PermissiveDefault ==
  (call.state = "returned" /\ ~Recognised(call.rule)) => call.result

-----------------------------------------------------------------------------
(* C15: for every value and every non-negative integer N,                    *)
(* checkRule(value, 'minLength:N') passes if and only if the untrimmed       *)
(* length of the value is at least N, leading and trailing white space       *)
(* counted; 'required' passes if and only if the trimmed value is not empty. *)
C15_MinLength ==
  /\ \A n \in 0..MaxN :
       Returned(MinLengthRule(n)) => (call.result <=> Len(call.value) >= n)
  /\ Returned(RULE_REQUIRED) =>
       (call.result <=> \E k \in 1..Len(call.value) : ~IsSpace(call.value[k]))

\* 'minLength:10' has passed on a value of ten characters of which only the
\* middle one is not white space
C15_Witness ==
  /\ Returned(MinLengthRule(10))
  /\ Len(call.value) = 10
  /\ \A k \in 1..10 : IsSpace(call.value[k]) <=> k # 5
  /\ call.result

-----------------------------------------------------------------------------
(* C16: style injection is idempotent.  After one or more executions of the  *)
(* script in a document the head holds exactly one style block marked        *)
(* data-animations, and an execution that finds such a block creates none.   *)
AnimationBlocks(h) == {i \in 1..Len(h) : h[i].animations}

\* C16: exactly one data-animations block after any number of executions,
\* and nothing created when one is found
C16_StyleOnce ==
  /\ [](runs # <<>> => Cardinality(AnimationBlocks(head)) = 1)
  /\ [][(ExecuteScript /\ AnimationBlocks(head) # {}) => head' = head]_vars

\* the script has run to completion three times, as a module, in a document
\* that had no style block: the head holds the one block of the first run
C16_Witness ==
  /\ doc.type = "module"
  /\ doc.styles = <<>>
  /\ runs = <<"completed", "completed", "completed">>
  /\ head = <<ScriptStyle>>

-----------------------------------------------------------------------------
(* C17: through any interleaving of blur, input and submit events and the    *)
(* timers of the success sequence, the form reset included, a field that     *)
(* carries the error class has a current value that fails one of its rules.  *)
C17_MarkerMeansInvalid ==
  \A f \in FieldNames : (Present(f) /\ cls[f]) => ~FieldValid(f)

-----------------------------------------------------------------------------
(* C18: the two halves of an error marker stay paired, for every field, in   *)
(* every reachable state and on every page layout, shared parents included:  *)
(* a field carries the error class if and only if its container holds an     *)
(* error node whose text is the field's own message; and validating, marking *)
(* or clearing one field never removes or overwrites another field's message.*)

\* the container of f holds an error node with f's own message
HasOwnMessage(d, f) ==
  \E k \in 1..Len(d.errs[page.parent[f]]) :
     d.errs[page.parent[f]][k].text = Descriptors[f].message

C18_PairedNow ==
  \A f \in FieldNames : Present(f) => (cls[f] <=> HasOwnMessage(Dom, f))

\* an event on field f leaves the message of every other field in place
C18_OthersKept ==
  \A f \in FieldNames :
     (BlurEvent(f) \/ \E v \in Typed[f] : InputEvent(f, v)) =>
       \A g \in FieldNames \ {f} :
          (Present(g) /\ HasOwnMessage(Dom, g)) =>
            HasOwnMessage([cls |-> cls', errs |-> errs'], g)

\* C18: class and own message node go together, and no field's event touches
\* another field's message
C18_MarkerPaired ==
  /\ []C18_PairedNow
  /\ [][C18_OthersKept]_vars

-----------------------------------------------------------------------------
(* C19: a stats section starts its counters at most once, and every counter  *)
(* animation terminates: with the interval callbacks run fairly the interval *)
(* is eventually cleared and the element's final text is the target; until   *)
(* then the numbers displayed never decrease and never exceed the target.    *)
(* This for every data-counter value: 0, negative and non-numeric included.  *)

\* a > b on JavaScript numbers: false when either is NaN
NumGt(a, b) == ~a.nan /\ ~b.nan /\ a.n > b.n

IntervalsOn(e) == {i \in 1..Len(intervals) : intervals[i].element = e}

Started(e) == IntervalsOn(e) # {}

Finished(e) ==
  /\ Started(e)
  /\ \A i \in IntervalsOn(e) :
       ~intervals[i].active /\ text[e] = Written(intervals[i].target)

C19_StartedOnce ==
  \A e \in 1..MaxCounters : Cardinality(IntervalsOn(e)) <= 1

C19_Monotone ==
  \A i \in 1..Len(intervals) :
     CounterCallback(i) =>
       LET e == intervals[i].element IN
       /\ ~NumGt(text'[e].v, intervals[i].target)
       /\ text[e].written => ~NumGt(text[e].v, text'[e].v)

\* C19: counters start once, every animation ends with the target displayed,
\* and the numbers displayed until then never decrease nor exceed the target
C19_CountersTerminate ==
  /\ []C19_StartedOnce
  /\ [][C19_Monotone]_vars
  /\ \A e \in 1..MaxCounters : Started(e) ~> Finished(e)

====
